---- MODULE Spec2Model ----
(***************************************************************************)
(* beancount-aib: cleanup of bank-statement payee strings by the AIB rule  *)
(* table (AIB_EXTRACTORS) driven by the TxnPayeeCleanup engine.            *)
(*                                                                         *)
(* A Python str is modelled as a sequence of one-character strings, so     *)
(* that every regular expression of the rule table is matched character by *)
(* character, as re.search does.                                           *)
(***************************************************************************)
EXTENDS Integers, Sequences, FiniteSets, TLC

(***************************************************************************)
(* Characters and the str methods the rule table uses.                     *)
(***************************************************************************)
UpperAlpha == <<"A","B","C","D","E","F","G","H","I","J","K","L","M","N","O","P","Q","R","S","T","U","V","W","X","Y","Z">>
LowerAlpha == <<"a","b","c","d","e","f","g","h","i","j","k","l","m","n","o","p","q","r","s","t","u","v","w","x","y","z">>
Upper == {UpperAlpha[i] : i \in DOMAIN UpperAlpha}
Lower == {LowerAlpha[i] : i \in DOMAIN LowerAlpha}
Digit == {"0","1","2","3","4","5","6","7","8","9"}
Letter == Upper \cup Lower
WordChar == Letter \cup Digit \cup {"_"}
Space == {" "}

LowerOf == [c \in Upper |-> LowerAlpha[CHOOSE i \in DOMAIN UpperAlpha : UpperAlpha[i] = c]]
UpperOf == [c \in Lower |-> UpperAlpha[CHOOSE i \in DOMAIN LowerAlpha : LowerAlpha[i] = c]]

lower_c(c) == IF c \in Upper THEN LowerOf[c] ELSE c
upper_c(c) == IF c \in Lower THEN UpperOf[c] ELSE c

\* str.lower()
lower(s) == [i \in 1..Len(s) |-> lower_c(s[i])] \o <<>>
\* str.upper()
upper(s) == [i \in 1..Len(s) |-> upper_c(s[i])] \o <<>>
\* str.capitalize(): first character upper-cased, the rest lower-cased
capitalize(s) == [i \in 1..Len(s) |-> IF i = 1 THEN upper_c(s[i]) ELSE lower_c(s[i])] \o <<>>

Min(S) == CHOOSE x \in S : \A y \in S : x <= y
Max(S) == CHOOSE x \in S : \A y \in S : y <= x

\* s[i-1:j] of Python, with 1-based inclusive indices
Sub(s, i, j) == SubSeq(s, i, j)

\* variant of strip that removes leading whitespace only
lstrip(s) ==
  LET I == {i \in 1..Len(s) : s[i] \notin Space}
  IN  IF I = {} THEN <<>> ELSE Sub(s, Min(I), Len(s))

\* str.strip(): leading and trailing whitespace removed
strip(s) ==
  LET I == {i \in 1..Len(s) : s[i] \notin Space}
  IN  IF I = {} THEN <<>> ELSE Sub(s, Min(I), Max(I))

\* word w occurs in p at position i (case-sensitive / under (?i))
StartsAt(p, i, w) ==
  /\ i >= 1
  /\ i + Len(w) - 1 <= Len(p)
  /\ \A k \in 1..Len(w) : p[i + k - 1] = w[k]
StartsAtCI(p, i, w) ==
  /\ i >= 1
  /\ i + Len(w) - 1 <= Len(p)
  /\ \A k \in 1..Len(w) : lower_c(p[i + k - 1]) = lower_c(w[k])

\* length of the longest run of characters of S that starts at position i
RunLen(p, i, S) ==
  LET Stop == {j \in i..Len(p) : p[j] \notin S}
  IN  IF i > Len(p) THEN 0
      ELSE IF Stop = {} THEN Len(p) - i + 1
      ELSE Min(Stop) - i

AllSpaces(p, i, j) == \A k \in i..j : p[k] = " "

(***************************************************************************)
(* re.Match objects: the matched span s..e (1-based, inclusive) and the    *)
(* capture groups; a group that did not participate has on = FALSE.        *)
(***************************************************************************)
Grp(v) == [on |-> TRUE, v |-> v]
NoGrp == [on |-> FALSE, v |-> <<>>]
Mk(p, s, e, g) == [ok |-> TRUE, s |-> s, e |-> e, g0 |-> Sub(p, s, e), g |-> g]
NoMatch == [ok |-> FALSE, s |-> 0, e |-> 0, g0 |-> <<>>, g |-> <<>>]

\* the first alternative, in pattern order, of an anchored alternation
\* ^(a1|a2|...)[seps] under (?i)
AltThenSep(p, alts, seps) ==
  LET A == {a \in DOMAIN alts :
              /\ StartsAtCI(p, 1, alts[a])
              /\ Len(alts[a]) + 1 <= Len(p)
              /\ p[Len(alts[a]) + 1] \in seps}
  IN  IF A = {} THEN NoMatch
      ELSE LET L == Len(alts[Min(A)])
           IN  Mk(p, 1, L + 1, <<Grp(Sub(p, 1, L))>>)

\* variant of the pattern that prefers the trailing star
re_edge_stars_trailing(p) ==
  IF Len(p) >= 1 /\ p[Len(p)] = "*" THEN Mk(p, Len(p), Len(p), <<Grp(<<"*">>)>>)
  ELSE IF Len(p) >= 1 /\ p[1] = "*" THEN Mk(p, 1, 1, <<Grp(<<"*">>)>>)
  ELSE NoMatch

\* r'(^\*|\*$)'
re_edge_stars(p) ==
  IF Len(p) >= 1 /\ p[1] = "*" THEN Mk(p, 1, 1, <<Grp(<<"*">>)>>)
  ELSE IF Len(p) >= 1 /\ p[Len(p)] = "*" THEN Mk(p, Len(p), Len(p), <<Grp(<<"*">>)>>)
  ELSE NoMatch

\* r'( \*|\* )'
re_space_stars(p) ==
  LET I == {i \in 1..(Len(p) - 1) :
              \/ p[i] = " " /\ p[i + 1] = "*"
              \/ p[i] = "*" /\ p[i + 1] = " "}
  IN  IF I = {} THEN NoMatch
      ELSE Mk(p, Min(I), Min(I) + 1, <<Grp(Sub(p, Min(I), Min(I) + 1))>>)

\* r'(?i)(time)? *(\d\d:\d\d)$'
re_time(p) ==
  LET n == Len(p)
      t == n - 4
      WithWord(i) == StartsAtCI(p, i, <<"t","i","m","e">>) /\ i + 4 <= t /\ AllSpaces(p, i + 4, t - 1)
  IN  IF /\ n >= 5
         /\ p[t] \in Digit /\ p[t + 1] \in Digit /\ p[t + 2] = ":"
         /\ p[t + 3] \in Digit /\ p[t + 4] \in Digit
      THEN LET i == Min({i \in 1..t : AllSpaces(p, i, t - 1) \/ WithWord(i)})
           IN  Mk(p, i, n, <<IF WithWord(i) THEN Grp(Sub(p, i, i + 3)) ELSE NoGrp,
                             Grp(Sub(p, t, n))>>)
      ELSE NoMatch

\* r' ([\d.]+) ([A-Z]{3})@ [\d.]+'
DigDot == Digit \cup {"."}
ForeignAt(p, i) ==
  LET k == RunLen(p, i + 1, DigDot)
      j == i + 1 + k
  IN  /\ p[i] = " "
      /\ k >= 1
      /\ j + 6 <= Len(p)
      /\ p[j] = " "
      /\ p[j + 1] \in Upper /\ p[j + 2] \in Upper /\ p[j + 3] \in Upper
      /\ p[j + 4] = "@"
      /\ p[j + 5] = " "
      /\ p[j + 6] \in DigDot
re_foreign(p) ==
  LET I == {i \in 1..Len(p) : ForeignAt(p, i)}
  IN  IF I = {} THEN NoMatch
      ELSE LET i == Min(I)
               j == i + 1 + RunLen(p, i + 1, DigDot)
           IN  Mk(p, i, j + 5 + RunLen(p, j + 6, DigDot),
                  <<Grp(Sub(p, i + 1, j - 1)), Grp(Sub(p, j + 1, j + 3))>>)

\* r' *(IE\d+)'
re_transfer_id(p) ==
  LET J == {j \in 1..(Len(p) - 2) : p[j] = "I" /\ p[j + 1] = "E" /\ p[j + 2] \in Digit}
  IN  IF J = {} THEN NoMatch
      ELSE LET j == Min(J)
               i == Min({i \in 1..j : AllSpaces(p, i, j - 1)})
               e == j + 1 + RunLen(p, j + 2, Digit)
           IN  Mk(p, i, e, <<Grp(Sub(p, j, e))>>)

\* ' +(.+)' from position i to the end of the string: the run of spaces is
\* taken greedily, but gives its last space back when nothing follows it.
\* The position where (.+) starts, 0 if there is no match.
SpacesThenRest(p, i) ==
  LET k == RunLen(p, i, Space)
  IN  IF k >= 1 /\ i + k <= Len(p) THEN i + k
      ELSE IF k >= 2 THEN Len(p)
      ELSE 0

\* r'RYANAIR +(.+)'
re_ryanair(p) ==
  LET I == {i \in 1..Len(p) : StartsAt(p, i, <<"R","Y","A","N","A","I","R">>) /\ SpacesThenRest(p, i + 7) # 0}
  IN  IF I = {} THEN NoMatch
      ELSE Mk(p, Min(I), Len(p), <<Grp(Sub(p, SpacesThenRest(p, Min(I) + 7), Len(p)))>>)

\* r'FREENOW\*(?=.*\d)([A-Z\d-]+)'
UpDigDash == Upper \cup Digit \cup {"-"}
re_freenow(p) ==
  LET I == {i \in 1..Len(p) :
              /\ StartsAt(p, i, <<"F","R","E","E","N","O","W","*">>)
              /\ \E d \in (i + 8)..Len(p) : p[d] \in Digit
              /\ RunLen(p, i + 8, UpDigDash) >= 1}
  IN  IF I = {} THEN NoMatch
      ELSE LET e == Min(I) + 7 + RunLen(p, Min(I) + 8, UpDigDash)
           IN  Mk(p, Min(I), e, <<Grp(Sub(p, Min(I) + 8, e))>>)

\* r'(?i)^(vd[apc]|op/|atm|pos|mobi|inet|d/d|atmldg|ms[ap]|)[- ]'
TxnTypeAlts == <<<<"v","d","a">>, <<"v","d","p">>, <<"v","d","c">>, <<"o","p","/">>, <<"a","t","m">>, <<"p","o","s">>, <<"m","o","b","i">>,
                 <<"i","n","e","t">>, <<"d","/","d">>, <<"a","t","m","l","d","g">>, <<"m","s","a">>, <<"m","s","p">>, <<>>>>
re_txn_type(p) == AltThenSep(p, TxnTypeAlts, {"-", " "})

\* r'(?i)^(paypal|sumup|sq|sp|zettle)[ _]'
ProcessorAlts == <<<<"p","a","y","p","a","l">>, <<"s","u","m","u","p">>, <<"s","q">>, <<"s","p">>, <<"z","e","t","t","l","e">>>>
re_processor(p) == AltThenSep(p, ProcessorAlts, {" ", "_"})

\* r'(?i)^google +\b': the position after the spaces, where a word starts
\* (0 if there is no match)
GoogleWordAt(p) ==
  LET k == RunLen(p, 7, Space)
  IN  IF /\ StartsAtCI(p, 1, <<"g","o","o","g","l","e">>)
         /\ k >= 1
         /\ 7 + k <= Len(p)
         /\ p[7 + k] \in WordChar
      THEN 7 + k ELSE 0

\* r'(?i)^google +\b(?!google|cloud|commerce|domain|ireland|music|payment|play|servic|svcs|store|youtub|voic)(.+)'
GoogleNot == {<<"g","o","o","g","l","e">>, <<"c","l","o","u","d">>, <<"c","o","m","m","e","r","c","e">>, <<"d","o","m","a","i","n">>, <<"i","r","e","l","a","n","d">>, <<"m","u","s","i","c">>,
              <<"p","a","y","m","e","n","t">>, <<"p","l","a","y">>, <<"s","e","r","v","i","c">>, <<"s","v","c","s">>, <<"s","t","o","r","e">>, <<"y","o","u","t","u","b">>, <<"v","o","i","c">>}
re_google1(p) ==
  LET r == GoogleWordAt(p)
  IN  IF r # 0 /\ \A w \in GoogleNot : ~StartsAtCI(p, r, w)
      THEN Mk(p, 1, Len(p), <<Grp(Sub(p, r, Len(p)))>>)
      ELSE NoMatch

\* r'(?i)^google +\b(payment|play|servic)'
GoogleAlts == <<<<"p","a","y","m","e","n","t">>, <<"p","l","a","y">>, <<"s","e","r","v","i","c">>>>
re_google2(p) ==
  LET r == GoogleWordAt(p)
      A == {a \in DOMAIN GoogleAlts : StartsAtCI(p, r, GoogleAlts[a])}
  IN  IF r # 0 /\ A # {}
      THEN LET e == r + Len(GoogleAlts[Min(A)]) - 1
           IN  Mk(p, 1, e, <<Grp(Sub(p, r, e))>>)
      ELSE NoMatch

\* r'(?<!TO )\d\d[A-Z]{3}\d\d *'
DateAt(p, i) ==
  /\ i + 6 <= Len(p)
  /\ p[i] \in Digit /\ p[i + 1] \in Digit
  /\ p[i + 2] \in Upper /\ p[i + 3] \in Upper /\ p[i + 4] \in Upper
  /\ p[i + 5] \in Digit /\ p[i + 6] \in Digit
  /\ ~StartsAt(p, i - 3, <<"T","O"," ">>)
re_date(p) ==
  LET I == {i \in 1..Len(p) : DateAt(p, i)}
  IN  IF I = {} THEN NoMatch
      ELSE Mk(p, Min(I), Min(I) + 6 + RunLen(p, Min(I) + 7, Space), <<>>)

\* r'((\.co)?\.[a-z]{2,3})' under (?i) at position d: the length of the
\* match (0 if there is none); (\.co)? is tried first, then skipped
DomainLen(p, d) ==
  LET Tld(q) == IF /\ q + 2 <= Len(p) /\ p[q] = "." /\ p[q + 1] \in Letter /\ p[q + 2] \in Letter
                THEN (IF q + 3 <= Len(p) /\ p[q + 3] \in Letter THEN 4 ELSE 3)
                ELSE 0
  IN  IF StartsAtCI(p, d, <<".","c","o">>) /\ Tld(d + 3) # 0 THEN 3 + Tld(d + 3)
      ELSE Tld(d)
DomainHasCo(p, d) ==
  LET Tld(q) == /\ q + 2 <= Len(p) /\ p[q] = "." /\ p[q + 1] \in Letter /\ p[q + 2] \in Letter
  IN  StartsAtCI(p, d, <<".","c","o">>) /\ Tld(d + 3)

\* r'(?i)^(www.)?amazon((\.co)?\.[a-z]{2,3})(.*)'
AmazonAt(p, a) == StartsAtCI(p, a, <<"a","m","a","z","o","n">>) /\ DomainLen(p, a + 6) # 0
re_amazon1(p) ==
  LET www == StartsAtCI(p, 1, <<"w","w","w">>) /\ Len(p) >= 4 /\ AmazonAt(p, 5)
      a == IF www THEN 5 ELSE 1
      d == a + 6
  IN  IF www \/ AmazonAt(p, 1)
      THEN Mk(p, 1, Len(p),
              <<IF www THEN Grp(Sub(p, 1, 4)) ELSE NoGrp,
                Grp(Sub(p, d, d + DomainLen(p, d) - 1)),
                IF DomainHasCo(p, d) THEN Grp(Sub(p, d, d + 2)) ELSE NoGrp,
                Grp(Sub(p, d + DomainLen(p, d), Len(p)))>>)
      ELSE NoMatch

\* r'(?i)^amazon prime.*'
re_amazon2(p) ==
  IF StartsAtCI(p, 1, <<"a","m","a","z","o","n"," ","p","r","i","m","e">>) THEN Mk(p, 1, Len(p), <<>>) ELSE NoMatch

\* r'(?i)^amazon [\d-]+'
DigDash == Digit \cup {"-"}
re_amazon3(p) ==
  IF StartsAtCI(p, 1, <<"a","m","a","z","o","n"," ">>) /\ RunLen(p, 8, DigDash) >= 1
  THEN Mk(p, 1, 7 + RunLen(p, 8, DigDash), <<>>)
  ELSE NoMatch

\* r'(?i)^(amazon[^*]+)\*.*'
re_amazon4(p) ==
  LET S == {i \in 7..Len(p) : p[i] = "*"}
  IN  IF StartsAtCI(p, 1, <<"a","m","a","z","o","n">>) /\ S # {} /\ Min(S) >= 8
      THEN Mk(p, 1, Len(p), <<Grp(Sub(p, 1, Min(S) - 1))>>)
      ELSE NoMatch

\* r'(?i)^(applegreen|boi|...|zabka) +(.+)$'
Brands == <<<<"a","p","p","l","e","g","r","e","e","n">>, <<"b","o","i">>, <<"b","u","r","g","e","r"," ","k","i","n","g">>, <<"c","a","m","i","l","e"," ","t","h","a","i">>, <<"c","e","n","t","r","a">>,
            <<"c","i","r","c","l","e"," ","k">>, <<"d","u","n","n","e","s">>, <<"e","u","r","o","s","p","a","r">>, <<"g","a","m","e","s","t","o","p">>, <<"m","a","c","e">>,
            <<"m","c","d","o","n","a","l","d","s">>, <<"m","i","c","h","i","e"," ","s","u","s","h","i">>, <<"p","a","b","l","o"," ","p","i","c","a","n","t","e">>, <<"p","a","r","k"," ","r","i","t","e">>,
            <<"p","e","n","n","e","y","s">>, <<"p","i","z","z","a"," ","h","u","t">>, <<"p","o","l","o","n","e","z">>, <<"s","p","a","r">>, <<"s","t","a","r","b","u","c","k","s">>,
            <<"s","u","p","e","r","v","a","l","u">>, <<"t","o","p","a","z">>, <<"u","b","l">>, <<"u","l","s","t","e","r"," ","b","a","n","k">>, <<"w","h"," ","s","m","i","t","h">>, <<"z","a","b","k","a">>>>
re_branch(p) ==
  LET A == {b \in DOMAIN Brands :
              StartsAtCI(p, 1, Brands[b]) /\ SpacesThenRest(p, Len(Brands[b]) + 1) # 0}
  IN  IF A = {} THEN NoMatch
      ELSE LET L == Len(Brands[Min(A)])
           IN  Mk(p, 1, Len(p),
                  <<Grp(Sub(p, 1, L)), Grp(Sub(p, SpacesThenRest(p, L + 1), Len(p)))>>)

\* re.Pattern.search of the pattern named r
search(r, p) ==
  CASE r = "edge_stars"  -> re_edge_stars(p)
    [] r = "space_stars" -> re_space_stars(p)
    [] r = "time"        -> re_time(p)
    [] r = "foreign"     -> re_foreign(p)
    [] r = "transfer_id" -> re_transfer_id(p)
    [] r = "ryanair"     -> re_ryanair(p)
    [] r = "freenow"     -> re_freenow(p)
    [] r = "txn_type"    -> re_txn_type(p)
    [] r = "processor"   -> re_processor(p)
    [] r = "google1"     -> re_google1(p)
    [] r = "google2"     -> re_google2(p)
    [] r = "date"        -> re_date(p)
    [] r = "amazon1"     -> re_amazon1(p)
    [] r = "amazon2"     -> re_amazon2(p)
    [] r = "amazon3"     -> re_amazon3(p)
    [] r = "amazon4"     -> re_amazon4(p)
    [] r = "branch"      -> re_branch(p)

(***************************************************************************)
(* The action vocabulary of a rule: T (tag), M (metadata), P (replace the  *)
(* matched span), C (consume the matched span).  The value of an action is *)
(* a literal, a back-reference to a group of the match (0 is the whole     *)
(* match), or a function of the match.                                     *)
(***************************************************************************)
Lit(s) == [t |-> "lit", s |-> s, n |-> 0, f |-> ""]
Ref(n) == [t |-> "ref", s |-> <<>>, n |-> n, f |-> ""]
Fn(f) == [t |-> "fn", s |-> <<>>, n |-> 0, f |-> f]

NoTranslation == [k \in {} |-> <<>>]

T(v, translation) ==
  [a |-> "T", n |-> "", v |-> v, transformer |-> "id", translation |-> translation]
M(n, v, transformer, translation) ==
  [a |-> "M", n |-> n, v |-> v, transformer |-> transformer, translation |-> translation]
P(v) ==
  [a |-> "P", n |-> "", v |-> v, transformer |-> "id", translation |-> NoTranslation]
C == [a |-> "C", n |-> "", v |-> Lit(<<>>), transformer |-> "id", translation |-> NoTranslation]

E(description, r, actions) == [description |-> description, r |-> r, actions |-> actions]

(***************************************************************************)
(* The AIB rule table, rule by rule, in table order.                       *)
(***************************************************************************)
E_edge_stars == E("Remove leading and trailing stars.", "edge_stars", <<C>>)
E_space_stars == E("Remove stars next to a space.", "space_stars", <<P(Lit(<<" ">>))>>)

E_time == E("Extract transaction time.", "time",
            <<M("time", Ref(2), "id", NoTranslation), C>>)

\* variant of the rule that wires the tag to group 1 (the amount)
E_foreign_tag1 == E("Handle non-Euro transactions.", "foreign",
                    <<M("foreign-amount", Ref(1), "id", NoTranslation), T(Ref(1), NoTranslation), C>>)

E_foreign == E("Handle non-Euro transactions.", "foreign",
               <<M("foreign-amount", Ref(1), "id", NoTranslation), T(Ref(2), NoTranslation), C>>)

M_ID == M("id", Ref(1), "id", NoTranslation)
\* variant of the rule that puts a placeholder where the id was
E_transfer_id_placeholder == E("Extract transfer ID.", "transfer_id", <<M_ID, P(Lit(<<"I","E">>))>>)
E_transfer_id == E("Extract transfer ID.", "transfer_id", <<M_ID, C>>)
\* variant of the rule that does not write the id
E_ryanair_no_id == E("Extract Ryanair transaction ID.", "ryanair", <<P(Lit(<<"R","y","a","n","a","i","r">>))>>)
E_ryanair == E("Extract Ryanair transaction ID.", "ryanair", <<M_ID, P(Lit(<<"R","y","a","n","a","i","r">>))>>)
E_freenow == E("Extract FreeNow transaction ID.", "freenow", <<M_ID, P(Lit(<<"F","r","e","e","N","o","w">>))>>)

TxnTypeTranslation ==
  (<<"a","t","m">> :> <<"a","t","m","-","a","i","b">>) @@ (<<"a","t","m","l","d","g">> :> <<"a","t","m","-","l","o","d","g","e","m","e","n","t">>) @@
  (<<"d","/","d">> :> <<"d","i","r","e","c","t","-","d","e","b","i","t">>) @@ (<<"i","n","e","t">> :> <<"o","n","l","i","n","e","-","i","n","t","e","r","f","a","c","e">>) @@
  (<<"m","o","b","i">> :> <<"a","p","p">>) @@ (<<"m","s","a">> :> <<"a","t","m">>) @@ (<<"m","s","p">> :> <<"p","o","i","n","t","-","o","f","-","s","a","l","e">>) @@
  (<<"o","p","/">> :> <<"d","i","r","e","c","t","-","d","e","b","i","t">>) @@ (<<"p","o","s">> :> <<"p","o","i","n","t","-","o","f","-","s","a","l","e">>) @@
  (<<"v","d","a">> :> <<"a","t","m">>) @@ (<<"v","d","c">> :> <<"c","o","n","t","a","c","t","l","e","s","s">>) @@ (<<"v","d","p">> :> <<"p","o","i","n","t","-","o","f","-","s","a","l","e">>)
\* variant of the rule without its translation table
E_txn_type_raw == E("Determine transaction type", "txn_type",
                    <<T(Ref(1), NoTranslation), C>>)

\* variant of the rule that wires the tag to the whole match
E_txn_type_whole == E("Determine transaction type", "txn_type",
                      <<T(Ref(0), TxnTypeTranslation), C>>)

E_txn_type == E("Determine transaction type", "txn_type",
                <<T(Ref(1), TxnTypeTranslation), C>>)

TAG == "payment-processor"
ProcessorTranslation == (<<"s","q">> :> <<"s","q","u","a","r","e">>) @@ (<<"s","p">> :> <<"s","t","r","i","p","e">>)
\* variant of the rule without its transformer
E_processor_untransformed == E("Extract payment processor company.", "processor",
                               <<M(TAG, Ref(1), "id", ProcessorTranslation), C>>)

E_processor == E("Extract payment processor company.", "processor",
                 <<M(TAG, Ref(1), "lower", ProcessorTranslation), C>>)

M_GOOG == M(TAG, Lit(<<"g","o","o","g","l","e">>), "id", NoTranslation)
E_google1 == E("Mark Google transactions 1/2", "google1", <<M_GOOG, P(Ref(1))>>)
E_google2 == E("Mark Google transactions 2/2", "google2", <<M_GOOG, P(Ref(0))>>)

E_date == E("Remove the date strings on non-fee transactions.", "date", <<C>>)

E_amazon1 == E("Amazon transactions 1/4.", "amazon1", <<P(Fn("amazon_domain"))>>)
E_amazon2 == E("Amazon transactions 1/4.", "amazon2", <<P(Lit(<<"A","m","a","z","o","n"," ","P","r","i","m","e">>))>>)
E_amazon3 == E("Amazon transactions 1/4.", "amazon3", <<P(Lit(<<"A","m","a","z","o","n">>))>>)
E_amazon4 == E("Amazon transactions 1/4.", "amazon4", <<P(Ref(1))>>)

SHORT_NAME_LENGTH == 3
E_branch == E("Handle branch/location information.", "branch",
              <<M("location", Ref(2), "lower", NoTranslation), P(Fn("brand_name"))>>)

AIB_EXTRACTORS ==
  <<E_edge_stars, E_space_stars, E_time, E_foreign, E_transfer_id, E_ryanair,
    E_freenow, E_txn_type, E_processor, E_google1, E_google2, E_date,
    E_amazon1, E_amazon2, E_amazon3, E_amazon4, E_branch>>

\* variant of amazon_domain that keeps a www. in front of the name
amazon_domain_www(m) == <<"w","w","w",".","A","m","a","z","o","n">> \o lower(m.g[2].v) \o m.g[4].v

\* lambda m: r'Amazon' + m.group(2).lower() + m.group(4)
amazon_domain(m) == <<"A","m","a","z","o","n">> \o lower(m.g[2].v) \o m.g[4].v

\* variant of brand_name that capitalizes every name
brand_name_capitalized(m) == capitalize(m.g[1].v)

\* lambda m: m.group(1).upper() if len(m.group(1)) <= SHORT_NAME_LENGTH
\*           else m.group(1).capitalize()
brand_name(m) ==
  IF Len(m.g[1].v) <= SHORT_NAME_LENGTH THEN upper(m.g[1].v) ELSE capitalize(m.g[1].v)

(***************************************************************************)
(* Records: the payee, tags and metadata of a Transaction.                 *)
(***************************************************************************)
EMPTY_META == [k \in {} |-> <<>>]
EMPTY_TAGS == {}

\* variant of Tx that keeps the payee as given (no strip)
Tx_unstripped(payee, tags, meta) == [payee |-> payee, tags |-> tags, meta |-> meta]

\* helpers.Tx: the payee is stripped when the Transaction is built
Tx(payee, tags, meta) == [payee |-> strip(payee), tags |-> tags, meta |-> meta]

\* meta[k] = v
MetaPut(meta, k, v) == [x \in DOMAIN meta \cup {k} |-> IF x = k THEN v ELSE meta[x]]

(***************************************************************************)
(* The cleanup engine, TxnPayeeCleanup.                                    *)
(***************************************************************************)
\* the value of an action for a match; ok is FALSE when the referenced group
\* did not take part in the match
Expand(v, m) ==
  CASE v.t = "lit" -> [ok |-> TRUE, val |-> v.s]
    [] v.t = "ref" ->
         IF v.n = 0 THEN [ok |-> TRUE, val |-> m.g0]
         ELSE IF m.g[v.n].on THEN [ok |-> TRUE, val |-> m.g[v.n].v]
         ELSE [ok |-> FALSE, val |-> <<>>]
    [] v.t = "fn" ->
         [ok |-> TRUE,
          val |-> IF v.f = "amazon_domain" THEN amazon_domain(m) ELSE brand_name(m)]

Transform(transformer, s) == IF transformer = "lower" THEN lower(s) ELSE s

\* Tag: the value is looked up in the translation table by its lower-cased
\* form ('VDC' gives 'contactless'); a value that is not in the table, or a
\* Tag without a table, is passed through as matched ('BRL' stays 'BRL')
TagValue(act, val) ==
  IF lower(val) \in DOMAIN act.translation THEN act.translation[lower(val)] ELSE val

\* Meta: exact-match translation first, then the transformer
MetaValue(act, val) ==
  Transform(act.transformer,
            IF val \in DOMAIN act.translation THEN act.translation[val] ELSE val)

\* Replace / Consume: only the matched span of the payee is rewritten
ReplaceSpan(payee, m, repl) ==
  Sub(payee, 1, m.s - 1) \o repl \o Sub(payee, m.e + 1, Len(payee))

ApplyAction(act, m, rec) ==
  LET x == Expand(act.v, m)
  IN  CASE act.a = "T" ->
             IF ~x.ok \/ x.val = <<>> THEN rec
             ELSE [rec EXCEPT !.tags = @ \cup {TagValue(act, x.val)}]
        [] act.a = "M" ->
             IF ~x.ok \/ x.val = <<>> THEN rec
             ELSE [rec EXCEPT !.meta = MetaPut(@, act.n, MetaValue(act, x.val))]
        [] act.a = "P" -> [rec EXCEPT !.payee = ReplaceSpan(@, m, x.val)]
        [] act.a = "C" -> [rec EXCEPT !.payee = ReplaceSpan(@, m, <<>>)]

\* all actions of one rule, in order, against the same match
RECURSIVE ApplyActions(_, _, _, _)
ApplyActions(actions, k, m, rec) ==
  IF k > Len(actions) THEN rec
  ELSE ApplyActions(actions, k + 1, m, ApplyAction(actions[k], m, rec))

\* the first rule at or after position i that matches the payee (0 if none)
RECURSIVE NextMatching(_, _, _)
NextMatching(table, i, payee) ==
  IF i > Len(table) THEN 0
  ELSE IF search(table[i].r, payee).ok THEN i
  ELSE NextMatching(table, i + 1, payee)

\* variant of PreserveOriginal that writes the key on every call
PreserveOriginal_always(rec, original, key) ==
  IF key # "None"
  THEN [rec EXCEPT !.meta = MetaPut(@, key, original)]
  ELSE rec

\* variant of PreserveOriginal that keeps the cleaned payee instead of the
\* original one
PreserveOriginal_cleaned(rec, original, key) ==
  IF key # "None" /\ rec.payee # original
  THEN [rec EXCEPT !.meta = MetaPut(@, key, rec.payee)]
  ELSE rec

\* on return the original payee is kept under the key only when the cleanup
\* changed the payee
PreserveOriginal(rec, original, key) ==
  IF key # "None" /\ rec.payee # original
  THEN [rec EXCEPT !.meta = MetaPut(@, key, original)]
  ELSE rec

\* one pass over the table from rule j on, then the strip; hit tells whether
\* a rule was applied
RECURSIVE RunPass(_, _, _, _)
RunPass(table, j, rec, hit) ==
  LET n == NextMatching(table, j, rec.payee)
  IN  IF n = 0 THEN [rec |-> [rec EXCEPT !.payee = strip(@)], hit |-> hit]
      ELSE RunPass(table, n + 1,
                   ApplyActions(table[n].actions, 1, search(table[n].r, rec.payee), rec),
                   TRUE)

\* passes are repeated until one applies no rule; the function gives up
\* after MaxPasses further passes
MaxPasses == 6
NoFixpoint == [payee |-> <<>>, tags |-> {<<"no fixpoint">>}, meta |-> [k \in {} |-> <<>>]]
RECURSIVE Passes(_, _, _)
Passes(table, rec, fuel) ==
  LET r == RunPass(table, 1, rec, FALSE)
  IN  IF ~r.hit THEN r.rec
      ELSE IF fuel = 0 THEN NoFixpoint
      ELSE Passes(table, r.rec, fuel - 1)

\* the result of one whole call, as a function of its arguments
TxnPayeeCleanup(rec, table, key) ==
  PreserveOriginal(Passes(table, rec, MaxPasses), rec.payee, key)

(***************************************************************************)
(* State.                                                                  *)
(***************************************************************************)
VARIABLES
  extractors,          \* the rule table instance shared by all calls
  txn,                 \* the record under cleanup
  entry,               \* the record as passed to the current call
  preserveOriginalIn,  \* the metadata key for the original payee, or "None"
  pc,                  \* "idle" | "scan" | "done"
  idx,                 \* the next rule of the table to try in this pass
  matched,             \* a rule was applied in this pass
  passStart,           \* the record as it was when this pass began
  passes,              \* passes completed in this call (counted up to MaxPasses + 1)
  applied,             \* the rules applied so far in this call
  rerun,               \* this call cleans the result of the previous call
  first,               \* the argument and the result of the previous call (when rerun)
  calls                \* number of calls made with this table

cleanupVars == <<extractors, txn, entry, preserveOriginalIn, pc, idx, matched, passStart,
                 passes, applied, rerun, first, calls>>

\* PayeeCategorizer
VARIABLES
  categories,          \* self.categories: the accounts in mapping order, each with its keywords
  cat_entry,           \* the entry handed to _process
  cat_out,             \* the entry _process returned
  cat_n                \* entries of the list processed so far

catVars == <<categories, cat_entry, cat_out, cat_n>>

\* Importer
VARIABLES
  importer_account,    \* self.importer_account
  cutoff_point,        \* self.cutoff_point: days, or "None"
  imp_pc,              \* "idle" | "returned"
  imp_call,            \* the method called last, with its file and existing_entries
  imp_ret              \* what it returned

impVars == <<importer_account, cutoff_point, imp_pc, imp_call, imp_ret>>

vars == <<cleanupVars, catVars, impVars>>


(***************************************************************************)
(* PayeeCategorizer.                                                       *)
(***************************************************************************)
MaxKeywords == 2
MaxPostings == 2
MaxEntries == 2

DEFAULT_CURRENCY == "EUR"

\* helpers.Post: a posting carries units only when an amount is given
Post(account, amount) ==
  [account |-> account,
   units |-> IF amount # "" THEN <<amount, DEFAULT_CURRENCY>> ELSE <<>>]

\* the words an account can be given; "." is the pattern character .
Keywords == {<<"t","e","s","c","o">>, <<"z","a","y","t","o","o","n">>, <<"t",".","s","c">>}

\* lists of distinct words
KeywordLists ==
  {ns \in UNION {[1..n -> Keywords] : n \in 0..MaxKeywords} :
     \A i, j \in DOMAIN ns : i # j => ns[i] # ns[j]}

\* the categories argument: accounts in the iteration order of the mapping,
\* each with its list of words
CategoryMaps ==
  {cs \in UNION {[1..n -> [account : {"Expenses:Groceries", "Expenses:Restaurants"},
                       names : KeywordLists]] : n \in 1..2} :
     \A i, j \in DOMAIN cs : i # j => cs[i].account # cs[j].account}

\* '|'.join(names) inside ^( ... ).* : the alternatives of the group; an
\* empty list joins to the empty string and leaves one empty alternative
Alternatives(names) == IF names = <<>> THEN << <<>> >> ELSE names

\* a word matched at the start of the payee under (?i); . matches any character
WordMatches(w, payee) ==
  /\ Len(w) <= Len(payee)
  /\ \A k \in 1..Len(w) : w[k] = "." \/ lower_c(w[k]) = lower_c(payee[k])

\* PayeeCategorizer.__init__: one compiled pattern per account
compile(cs) == [i \in DOMAIN cs |-> [account |-> cs[i].account, alts |-> Alternatives(cs[i].names)]]

\* regexp.match(payee) for a compiled pattern
regexp_match(alts, payee) == \E i \in DOMAIN alts : WordMatches(alts[i], payee)

\* the entries handed to the categorizer: transactions and entries of another
\* type, with none to MaxPostings postings
CategorizerPayees == {<<>>, <<"T","E","S","C","O"," ","S","T","O","R","E","S"," ","7">>, <<"Z","a","y","t","o","o","n"," ","N","o","r","t","h">>, <<"f","o","r","b","i","d","d","e","n"," ","p","l","a","n","e","t">>}
PostingsPool ==
  <<Post("Assets:AIB:Checking", "-12.34"), Post("Expenses:Household", "12.34"),
    Post("Expenses:Fees", "1")>>
CategorizerEntries ==
  {[type |-> t, payee |-> p, postings |-> SubSeq(PostingsPool, 1, n)] :
     t \in {"Transaction", "Other"}, p \in CategorizerPayees, n \in 0..MaxPostings}

\* variant that categorizes every transaction with at most one posting
process_upto_one(cats, e) ==
  IF e.type = "Transaction" /\ Len(e.postings) <= 1
  THEN LET hits == {i \in DOMAIN cats : e.payee # <<>> /\ regexp_match(cats[i].alts, e.payee)}
       IN  IF hits = {} THEN e
           ELSE [e EXCEPT !.postings = Append(@, Post(cats[Min(hits)].account, ""))]
  ELSE e

\* PayeeCategorizer._process
_process(cats, e) ==
  IF e.type = "Transaction" /\ Len(e.postings) = 1
  THEN LET hits == {i \in DOMAIN cats : e.payee # <<>> /\ regexp_match(cats[i].alts, e.payee)}
       IN  IF hits = {} THEN e
           ELSE [e EXCEPT !.postings = Append(@, Post(cats[Min(hits)].account, ""))]
  ELSE e

NoEntry == [type |-> "Other", payee |-> <<>>, postings |-> <<>>]

\* no categorizer is in use
CatIdle ==
  /\ categories = <<>>
  /\ cat_entry = NoEntry
  /\ cat_out = NoEntry
  /\ cat_n = 0

\* PayeeCategorizer(categories)
CatInit ==
  /\ categories \in CategoryMaps
  /\ cat_entry = NoEntry
  /\ cat_out = NoEntry
  /\ cat_n = 0

\* PayeeCategorizer.__call__: the next entry of extracted_entries is processed
Process ==
  /\ cat_n < MaxEntries
  /\ cat_entry' \in CategorizerEntries
  /\ cat_out' = _process(compile(categories), cat_entry')
  /\ cat_n' = cat_n + 1
  /\ UNCHANGED <<categories, cleanupVars, impVars>>

(***************************************************************************)
(* Importer: class attributes and the state of an instance nobody calls.   *)
(***************************************************************************)
currency == "EUR"
txflag == "!"
default_account == "__UNKNOWN__"
default_narration == ""

\* no date, no timedelta, no balance: None is the empty tuple, a value v is <<v>>
None == <<>>

\* held is the account the instance held when the call was made
NoCall == [op |-> "none", file |-> None, existing_entries |-> None, held |-> default_account]

\* no importer is in use
ImpIdle ==
  /\ importer_account = default_account
  /\ cutoff_point = None
  /\ imp_pc = "idle"
  /\ imp_call = NoCall
  /\ imp_ret = None
(***************************************************************************)
(* Inputs.  A payee is a concatenation of at most MaxParts fragments of    *)
(* one family of bank-statement fragments.                                 *)
(***************************************************************************)
MaxParts == 3
MaxCalls == 2

\* stars, transaction types, time stamps, branches
Family1 == {<<"*">>, <<" ">>, <<"-">>, <<"V","D","C">>, <<"M","o","b","i">>, <<"D","U","N","N","E","S">>, <<"b","o","i">>,
            <<"1","2",":","3","4">>, <<"X">>}
\* foreign amounts, ids, payment processors, dates, after a transaction type
Family2 == {<<" ">>, <<"X">>, <<" ","1",".","5"," ","U","S","D","@"," ","2">>, <<"I","E","1","2">>, <<"R","Y","A","N","A","I","R">>,
            <<"F","R","E","E","N","O","W","*">>, <<"S","Q">>, <<"0","1","J","A","N","2","4">>, <<"T","O">>, <<"V","D","C">>}
\* Google and Amazon
Family3 == {<<" ">>, <<"*">>, <<"g","o","o","g","l","e">>, <<"p","l","a","y">>, <<"a","m","a","z","o","n">>, <<"w","w","w",".">>,
            <<".","c","o",".","u","k">>, <<"p","r","i","m","e">>, <<"1","2","-","3">>}

\* payment processors in either letter case
Family4 == {<<" ">>, <<"_">>, <<"X">>, <<"S","Q">>, <<"s","q">>, <<"s","p">>, <<"P","a","y","p","a","l">>}
\* ids written by the transfer-id, Ryanair and FreeNow rules
Family5 == {<<"R","Y","A","N","A","I","R"," ","X">>, <<" ","I","E","1","2">>, <<" ","I","E","3","4">>, <<"F","R","E","E","N","O","W","*","A","1">>}

RECURSIVE Concats(_, _)
Concats(F, n) ==
  IF n = 0 THEN {<<>>}
  ELSE LET prev == Concats(F, n - 1)
       IN  prev \cup {s \o w : s \in prev, w \in F}

Payees == Concats(Family1, MaxParts) \cup Concats(Family2, MaxParts)
            \cup Concats(Family3, MaxParts) \cup Concats(Family4, MaxParts)
            \cup Concats(Family5, MaxParts)

\* the inputs of CLEANER_SCENARIOS in the extractor tests
CLEANER_SCENARIOS == {<<"M","U","N","D","A","N","E"," ","L","T","D">>, <<"B","U","L","L","E","T","*","S","T","A","R">>, <<"*","M","O","B","I"," ","A","N","G","R","Y"," ","L","E","M","O","N">>, <<"V","D","C","-","I","N","S","O","M","N","I","A">>,
                      <<"V","D","P","-","T","E","S","C","O">>, <<"L","E","E","R","O","Y"," ","J","E","N","K","I","N","S"," ","I","E","1","0","2","9","3","4","8","2">>, <<"V","D","P","-","P","A","Y","P","A","L"," ","*","E","V","I","L">>,
                      <<"V","D","C","-","S","U","M","U","P"," ","P","A","S","T","R","Y">>, <<"V","D","A","-","P","E","R","N","A","M","B","U","C","O"," ","1","0","0",".","0","0"," ","B","R","L","@"," ","0",".","1","7">>}
\* the payees of the two rows of the current-account statement in the importer test
StatementPayees == {<<"N","u","t","s"," ","a","n","d"," ","B","o","l","t","s"," ","L","i","m","i","t","e","d">>, <<"V","D","P","-","C","r","o","i","s","s","a","n","t","s">>}
\* the branch example
BranchExample == <<"V","D","C","-","D","U","N","N","E","S"," ","D","O","G","H","N">>
Scenarios == CLEANER_SCENARIOS \cup StatementPayees \cup {BranchExample}

\* preserveOriginalIn: None in the extractor tests, 'original-payee' in
\* Importer._parse
PreserveKeys == {"None", "original-payee"}

\* variant of deepcopy that loses the last element of a list
deepcopy_truncated(x) == SubSeq(x, 1, Len(x) - 1)

\* copy.deepcopy: a copy equal to the original
deepcopy(x) == x

(***************************************************************************)
(* Cleanup: one call of TxnPayeeCleanup after another on one rule table.   *)
(***************************************************************************)
NoTxn == [payee |-> <<>>, tags |-> EMPTY_TAGS, meta |-> EMPTY_META]
NoFirst == [arg |-> NoTxn, res |-> NoTxn]

\* Importer.__init__: the importer works on its own copy of the rule table
CleanupInit ==
  /\ extractors = deepcopy(AIB_EXTRACTORS)
  /\ txn = NoTxn
  /\ entry = NoTxn
  /\ preserveOriginalIn = "None"
  /\ pc = "idle"
  /\ idx = 1
  /\ matched = FALSE
  /\ passStart = NoTxn
  /\ passes = 0
  /\ applied = {}
  /\ rerun = FALSE
  /\ first = NoFirst
  /\ calls = 0

\* the cleanup runs with no categorizer or importer call in progress
Init == CleanupInit /\ CatIdle /\ ImpIdle

\* TxnPayeeCleanup(txn, extractors, preserveOriginalIn) is called on a new
\* record.  The first call is made on any payee; further calls on the same
\* table follow a call on a scenario record and are made on scenario records.
Call ==
  /\ calls < MaxCalls
  /\ \/ pc = "idle"
     \/ pc = "done" /\ ~rerun /\ entry.payee \in Scenarios
  /\ \E p \in (IF calls = 0 THEN Payees \cup Scenarios ELSE Scenarios),
        k \in PreserveKeys :
       /\ txn' = Tx(p, EMPTY_TAGS, EMPTY_META)
       /\ entry' = Tx(p, EMPTY_TAGS, EMPTY_META)
       /\ preserveOriginalIn' = k
  /\ pc' = "scan"
  /\ idx' = 1
  /\ matched' = FALSE
  /\ passStart' = txn'
  /\ passes' = 0
  /\ applied' = {}
  /\ rerun' = FALSE
  /\ first' = NoFirst
  /\ calls' = calls + 1
  /\ UNCHANGED <<extractors, catVars, impVars>>

\* TxnPayeeCleanup is called on the record the previous call returned, with
\* the same table and key
CallAgain ==
  /\ pc = "done"
  /\ ~rerun
  /\ first' = [arg |-> entry, res |-> txn]
  /\ entry' = txn
  /\ rerun' = TRUE
  /\ pc' = "scan"
  /\ idx' = 1
  /\ matched' = FALSE
  /\ passStart' = txn
  /\ passes' = 0
  /\ applied' = {}
  /\ UNCHANGED <<extractors, txn, preserveOriginalIn, calls, catVars, impVars>>

\* within a pass: rule j, the next rule in table order whose pattern matches
\* the current payee, is applied once, with all its actions
ApplyRule(j) ==
  /\ txn' = ApplyActions(extractors[j].actions, 1, search(extractors[j].r, txn.payee), txn)
  /\ idx' = j + 1
  /\ applied' = applied \cup {extractors[j].r}
  /\ matched' = TRUE
  /\ UNCHANGED <<extractors, entry, preserveOriginalIn, pc, passStart, passes, rerun, first, calls>>

\* end of a pass: the payee is stripped; another pass follows if a rule was
\* applied in this one, otherwise the call returns
EndPass ==
  /\ IF matched
     THEN /\ txn' = [txn EXCEPT !.payee = strip(@)]
          /\ pc' = "scan"
     ELSE /\ txn' = PreserveOriginal([txn EXCEPT !.payee = strip(@)],
                                     entry.payee, preserveOriginalIn)
          /\ pc' = "done"
  /\ idx' = 1
  /\ matched' = FALSE
  /\ passStart' = txn'
  /\ passes' = Min({passes + 1, MaxPasses + 1})
  /\ UNCHANGED <<extractors, entry, preserveOriginalIn, applied, rerun, first, calls>>

\* one iteration of the loop over the rule table
Scan ==
  /\ pc = "scan"
  /\ LET j == NextMatching(extractors, idx, txn.payee)
     IN  IF j # 0 THEN ApplyRule(j) ELSE EndPass
  /\ UNCHANGED <<catVars, impVars>>

Next == Call \/ CallAgain \/ Scan

Spec == Init /\ [][Next]_vars


(***************************************************************************)
(* Importer.  Dates are days of one month.                                 *)
(***************************************************************************)
MaxRows == 2
MaxExisting == 2

\* account_map: the account named in a statement -> the ledger account
account_map == ("111" :> "Assets:AIB:Secret") @@ ("222" :> "Liabilities:AIB:Card")

\* the description of a row posted on a day
Description == <<<<"N","u","t","s"," ","a","n","d"," ","B","o","l","t","s"," ","L","i","m","i","t","e","d">>, <<"V","D","P","-","C","r","o","i","s","s","a","n","t","s">>, <<"t","w","e","n","t","y"," ","f","e","e","t"," ","o","f"," ","p","u","r","e"," ","w","h","i","t","e"," ","s","n","o","w">>>>
\* the Balance field of the i-th row of a file, when the row has one
Balances == <<"126.50", "116.50", "316.50", "650.00">>

\* the data rows of a statement of one account: any of the days in any
\* order, each row with or without a balance
RowLists(a, days) ==
  UNION {{[i \in 1..n |-> [account |-> a, date |-> ds[i], payee |-> Description[ds[i]],
                            amount |-> "-10.00",
                            balance |-> IF i \in B THEN Balances[i] ELSE ""]] :
            ds \in [1..n -> days], B \in SUBSET (1..n)} : n \in 1..MaxRows}

\* rows of several accounts in one file
MixedRows(n) ==
  [i \in 1..n |-> [account |-> IF i = n THEN "222" ELSE "111", date |-> 1,
                   payee |-> Description[1], amount |-> "-10.00", balance |-> Balances[i]]]

NotCsv == [mimetype |-> "text/plain", rows |-> <<>>]

Files ==
  {NotCsv}
    \cup {[mimetype |-> "text/csv", rows |-> rs] :
            rs \in RowLists("111", {1, 2, 3}) \cup RowLists("222", {1, 2}) \cup RowLists("999", {1})
                     \cup {MixedRows(n) : n \in 2..MaxRows}}

\* helpers.Bal
Bal(account, amount, date, meta) ==
  [type |-> "Balance", meta |-> meta, date |-> date, account |-> account,
   amount |-> <<amount, currency>>]

\* a Transaction of the ledger, with one posting
ExistingTx(date, flag, account) ==
  [type |-> "Transaction", date |-> date, flag |-> flag,
   postings |-> <<Post(account, "-9.99")>>]

\* the entries of the ledger: transactions of the current account on days 2
\* and 3, one of them flagged !, a transaction of the card account and a
\* balance directive
ExistingPool ==
  {ExistingTx(2, "*", "Assets:AIB:Secret"), ExistingTx(3, "*", "Assets:AIB:Secret"),
   ExistingTx(3, "!", "Assets:AIB:Secret"), ExistingTx(3, "*", "Liabilities:AIB:Card"),
   Bal("Assets:AIB:Secret", "700", 3, EMPTY_META)}

\* existing_entries: None, or the entries of a loaded ledger, in date order
ExistingEntries ==
  {None} \cup
  {<<es>> : es \in {l \in UNION {[1..n -> ExistingPool] : n \in 0..MaxExisting} :
                      \A i, j \in DOMAIN l : i < j => l[i].date <= l[j].date}}

\* variant of identify that keeps the account of the first file it accepted
identify_once(self_account, file) ==
  IF file.mimetype # "text/csv"
  THEN [ok |-> FALSE, importer_account |-> self_account]
  ELSE LET first_line_account == file.rows[1].account
       IN  IF \E i \in DOMAIN file.rows : first_line_account # file.rows[i].account
           THEN [ok |-> FALSE, importer_account |-> self_account]
           ELSE [ok |-> first_line_account \in DOMAIN account_map,
                 importer_account |-> IF self_account # default_account THEN self_account
                                      ELSE IF first_line_account \in DOMAIN account_map
                                      THEN account_map[first_line_account]
                                      ELSE default_account]

\* Importer.identify: the verdict and the account the instance holds afterwards
identify(self_account, file) ==
  IF file.mimetype # "text/csv"
  THEN [ok |-> FALSE, importer_account |-> self_account]
  ELSE LET first_line_account == file.rows[1].account
       IN  IF \E i \in DOMAIN file.rows : first_line_account # file.rows[i].account
           THEN [ok |-> FALSE, importer_account |-> self_account]
           ELSE [ok |-> first_line_account \in DOMAIN account_map,
                 importer_account |-> IF first_line_account \in DOMAIN account_map
                                      THEN account_map[first_line_account]
                                      ELSE default_account]

\* Importer.file_date
file_date(self_account, file) ==
  LET id == identify(self_account, file)
  IN  [ret |-> IF id.ok THEN <<file.rows[Len(file.rows)].date>> ELSE None,
       importer_account |-> id.importer_account]

\* variant of file_account that trusts the account the instance holds
file_account_held(self_account, file) ==
  LET id == identify(self_account, file)
  IN  [ret |-> IF self_account # default_account THEN self_account
               ELSE IF id.ok THEN id.importer_account ELSE default_account,
       importer_account |-> id.importer_account]

\* Importer.file_account
file_account(self_account, file) ==
  LET id == identify(self_account, file)
  IN  [ret |-> IF id.ok THEN id.importer_account ELSE default_account,
       importer_account |-> id.importer_account]

\* TxnPayeeCleanup(txn, self.extractors, preserveOriginalIn='original-payee')
\* on the description of each day's row: the payee, tags and metadata the
\* importer test expects
CleanedDescription ==
  <<[payee |-> <<"N","u","t","s"," ","a","n","d"," ","B","o","l","t","s"," ","L","i","m","i","t","e","d">>, tags |-> EMPTY_TAGS, meta |-> EMPTY_META],
    [payee |-> <<"C","r","o","i","s","s","a","n","t","s">>, tags |-> {<<"p","o","i","n","t","-","o","f","-","s","a","l","e">>},
     meta |-> MetaPut(EMPTY_META, "original-payee", <<"V","D","P","-","C","r","o","i","s","s","a","n","t","s">>)],
    [payee |-> <<"t","w","e","n","t","y"," ","f","e","e","t"," ","o","f"," ","p","u","r","e"," ","w","h","i","t","e"," ","s","n","o","w">>, tags |-> EMPTY_TAGS, meta |-> EMPTY_META]>>

\* new_metadata(file.name, row['__lineno']): the header is line 1
new_metadata(i) == ("filename" :> "<string-backed file>") @@ ("lineno" :> i + 1)

\* Importer._parse: one Transaction per row, with its single posting and
\* its payee cleaned, in file order, and the last balance seen
_parse(account, file) ==
  LET withBalance == {i \in DOMAIN file.rows : file.rows[i].balance # ""}
      Row(i) == LET cleaned == CleanedDescription[file.rows[i].date]
                IN  [type |-> "Transaction", date |-> file.rows[i].date, flag |-> txflag,
                     payee |-> cleaned.payee, narration |-> default_narration,
                     tags |-> cleaned.tags, meta |-> cleaned.meta @@ new_metadata(i),
                     postings |-> <<Post(account, file.rows[i].amount)>>]
  IN  [entries |-> [i \in DOMAIN file.rows |-> Row(i)],
       last_balance |->
         IF withBalance = {} THEN None
         ELSE LET i == Max(withBalance)
              IN  <<[date |-> file.rows[i].date, balance |-> file.rows[i].balance,
                     meta |-> new_metadata(i)]>>]

\* list.sort(key=lambda x: x.date): stable
RECURSIVE sort_by_date(_)
sort_by_date(es) ==
  IF es = <<>> THEN <<>>
  ELSE LET i == Min({k \in DOMAIN es : \A j \in DOMAIN es : es[k].date <= es[j].date})
       IN  <<es[i]>> \o sort_by_date(SubSeq(es, 1, i - 1) \o SubSeq(es, i + 1, Len(es)))

\* variant that also counts the transactions flagged !
latest_date_any_flag(existing, account) ==
  LET Q == {i \in DOMAIN existing :
              /\ existing[i].type = "Transaction"
              /\ \E k \in DOMAIN existing[i].postings : existing[i].postings[k].account = account}
  IN  IF Q = {} THEN None ELSE <<existing[Max(Q)].date>>

\* Importer.extract, the loop over reversed(existing_entries): the date of
\* the last transaction not flagged ! with a posting on the account
latest_date(existing, account) ==
  LET Q == {i \in DOMAIN existing :
              /\ existing[i].type = "Transaction"
              /\ existing[i].flag # "!"
              /\ \E k \in DOMAIN existing[i].postings : existing[i].postings[k].account = account}
  IN  IF Q = {} THEN None ELSE <<existing[Max(Q)].date>>

\* variant of the culling that keeps only the transactions after the cutoff day
cull_strict(entries, latest, cutoff) ==
  SelectSeq(entries, LAMBDA e : e.date > latest - cutoff)

\* Importer.extract, the culling: the entries not older than the cutoff
cull(entries, latest, cutoff) ==
  SelectSeq(entries, LAMBDA e : e.date >= latest - cutoff)

\* variant that dates the balance on the day of its row
with_balance_same_day(entries, last_balance, account) ==
  IF last_balance # None
  THEN Append(entries, Bal(account, last_balance[1].balance, last_balance[1].date,
                           last_balance[1].meta))
  ELSE entries

\* Importer.extract, the balance entry at the end
with_balance(entries, last_balance, account) ==
  IF last_balance # None
  THEN Append(entries, Bal(account, last_balance[1].balance, last_balance[1].date + 1,
                           last_balance[1].meta))
  ELSE entries

\* Importer.extract
extract(self_account, cutoff, file, existing_entries) ==
  LET id == identify(self_account, file)
  IN  IF ~id.ok
      THEN [ret |-> <<>>, importer_account |-> id.importer_account]
      ELSE LET parsed == _parse(id.importer_account, file)
               entries == sort_by_date(parsed.entries)
               latest == IF cutoff # None /\ existing_entries # None
                         THEN latest_date(existing_entries[1], id.importer_account)
                         ELSE None
               kept == IF latest # None THEN cull(entries, latest[1], cutoff[1]) ELSE entries
           IN  [ret |-> with_balance(kept, parsed.last_balance, id.importer_account),
                importer_account |-> id.importer_account]

\* Importer(account_map, cutoff_days=n): n is None, 0 or 1
ImpInit ==
  /\ importer_account = default_account
  /\ cutoff_point \in {None, <<0>>, <<1>>}
  /\ imp_pc = "idle"
  /\ imp_call = NoCall
  /\ imp_ret = None

Identify ==
  /\ imp_pc = "idle"
  /\ imp_call' \in {[op |-> "identify", file |-> f, existing_entries |-> None,
                      held |-> importer_account] : f \in Files}
  /\ imp_ret' = identify(importer_account, imp_call'.file).ok
  /\ importer_account' = identify(importer_account, imp_call'.file).importer_account
  /\ imp_pc' = "returned"
  /\ UNCHANGED <<cutoff_point, cleanupVars, catVars>>

FileDate ==
  /\ imp_pc = "idle"
  /\ imp_call' \in {[op |-> "file_date", file |-> f, existing_entries |-> None,
                      held |-> importer_account] : f \in Files}
  /\ imp_ret' = file_date(importer_account, imp_call'.file).ret
  /\ importer_account' = file_date(importer_account, imp_call'.file).importer_account
  /\ imp_pc' = "returned"
  /\ UNCHANGED <<cutoff_point, cleanupVars, catVars>>

FileAccount ==
  /\ imp_pc = "idle"
  /\ imp_call' \in {[op |-> "file_account", file |-> f, existing_entries |-> None,
                      held |-> importer_account] : f \in Files}
  /\ imp_ret' = file_account(importer_account, imp_call'.file).ret
  /\ importer_account' = file_account(importer_account, imp_call'.file).importer_account
  /\ imp_pc' = "returned"
  /\ UNCHANGED <<cutoff_point, cleanupVars, catVars>>

Extract ==
  /\ imp_pc = "idle"
  /\ imp_call' \in {[op |-> "extract", file |-> f, existing_entries |-> ex,
                      held |-> importer_account] : f \in Files, ex \in ExistingEntries}
  /\ LET r == extract(importer_account, cutoff_point, imp_call'.file,
                      imp_call'.existing_entries)
     IN  imp_ret' = r.ret /\ importer_account' = r.importer_account
  /\ imp_pc' = "returned"
  /\ UNCHANGED <<cutoff_point, cleanupVars, catVars>>

\* the caller takes the result; the instance keeps its account
Return ==
  /\ imp_pc = "returned"
  /\ imp_pc' = "idle"
  /\ imp_call' = NoCall
  /\ imp_ret' = None
  /\ UNCHANGED <<importer_account, cutoff_point, cleanupVars, catVars>>

ImpNext == Identify \/ FileDate \/ FileAccount \/ Extract \/ Return

(***************************************************************************)
(* Specifications of the categorizer and of the importer.                  *)
(***************************************************************************)
CatSpecInit == CatInit /\ CleanupInit /\ ImpIdle
CatSpec == CatSpecInit /\ [][Process]_vars

ImpSpecInit == ImpInit /\ CleanupInit /\ CatIdle
ImpSpec == ImpSpecInit /\ [][ImpNext]_vars
(***************************************************************************)
(* Properties.                                                             *)
(***************************************************************************)
NoRuleMatches(payee) == \A j \in DOMAIN AIB_EXTRACTORS : ~search(AIB_EXTRACTORS[j].r, payee).ok

\* C1: cleaning the record a call returned once more, with the same rule
\* table and the same preserve key, applies no rule and returns a record with
\* the same payee, tags and metadata.
C1_Idempotent == rerun => (applied = {} /\ (pc = "done" => txn = first.res))
C1_Witness ==
  /\ pc = "done" /\ rerun
  /\ preserveOriginalIn = "original-payee"
  /\ first.res.payee # first.arg.payee
  /\ first.res.tags # {}
  /\ txn = first.res

\* C2: every call of cleanup with the AIB rule table returns after finitely
\* many passes.  A pass is a function of the record it begins with, so a call
\* returns only if no pass that applied a rule ends with the record it began
\* with: such a pass is followed by the same pass for ever.
C2_Terminates ==
  ~(/\ pc = "scan"
    /\ matched
    /\ NextMatching(extractors, idx, txn.payee) = 0
    /\ [txn EXCEPT !.payee = strip(@)] = passStart)

\* C3: when cleanup has returned, no pattern of the rule table matches the
\* returned payee.
C3_Fixpoint == pc = "done" => NoRuleMatches(txn.payee)
C3_Witness == pc = "done" /\ ~rerun /\ Cardinality(applied) >= 2 /\ txn.payee # <<>>

C5_SnapshotAlways ==
  (pc = "done" /\ preserveOriginalIn # "None") =>
    /\ preserveOriginalIn \in DOMAIN txn.meta
    /\ txn.meta[preserveOriginalIn] = entry.payee

\* C5 amended: with a preserve key, the returned metadata holds the payee as
\* it was on entry under that key when the call changed the payee; when the
\* call left the payee as it was, the key is not written.
C5_SnapshotWhenChanged ==
  (pc = "done" /\ preserveOriginalIn # "None") =>
    IF txn.payee # entry.payee
    THEN /\ preserveOriginalIn \in DOMAIN txn.meta
         /\ txn.meta[preserveOriginalIn] = entry.payee
    ELSE preserveOriginalIn \notin DOMAIN entry.meta => preserveOriginalIn \notin DOMAIN txn.meta
C5_Witness ==
  /\ pc = "done" /\ ~rerun
  /\ preserveOriginalIn = "original-payee"
  /\ entry.payee = <<"V","D","C","-","D","U","N","N","E","S"," ","D","O","G","H","N">>
  /\ txn.meta["original-payee"] = <<"V","D","C","-","D","U","N","N","E","S"," ","D","O","G","H","N">>
  /\ txn.payee = <<"D","u","n","n","e","s">>

\* C6: a transaction the importer cleaned carries 'original-payee' exactly
\* when the cleanup changed its payee, and the value is the payee before the
\* cleanup.
C6_OriginalPayeeIffChanged ==
  (pc = "done" /\ ~rerun /\ preserveOriginalIn = "original-payee") =>
    /\ ("original-payee" \in DOMAIN txn.meta) <=> (txn.payee # entry.payee)
    /\ "original-payee" \in DOMAIN txn.meta => txn.meta["original-payee"] = entry.payee
C6_Witness ==
  /\ pc = "done" /\ ~rerun
  /\ preserveOriginalIn = "original-payee"
  /\ entry.payee = <<"V","D","P","-","C","r","o","i","s","s","a","n","t","s">>
  /\ txn.payee = <<"C","r","o","i","s","s","a","n","t","s">>
  /\ txn.meta = [k \in {"original-payee"} |-> <<"V","D","P","-","C","r","o","i","s","s","a","n","t","s">>]
C6_WitnessUnchanged ==
  /\ pc = "done" /\ ~rerun
  /\ preserveOriginalIn = "original-payee"
  /\ entry.payee = <<"N","u","t","s"," ","a","n","d"," ","B","o","l","t","s"," ","L","i","m","i","t","e","d">>
  /\ txn = entry

\* C7: if no rule matches the payee on entry and no preserve key is given,
\* the call returns the record with payee, tags and metadata unchanged.
C7_NoMatchUnchanged ==
  (pc = "done" /\ preserveOriginalIn = "None" /\ NoRuleMatches(entry.payee)) => txn = entry
C7_Witness ==
  /\ pc = "done" /\ ~rerun
  /\ preserveOriginalIn = "None"
  /\ entry.payee = <<"B","U","L","L","E","T","*","S","T","A","R">>
  /\ txn = entry

\* the transaction-type prefix of a payee: a type code in any letter case and
\* the '-' or space after it, after an optional leading star
Unstarred(p) == IF Len(p) > 0 /\ p[1] = "*" THEN Tail(p) ELSE p
TypePrefix(p) == search("txn_type", Unstarred(p))
HasTypePrefix(p) == TypePrefix(p).ok /\ TypePrefix(p).g[1].v # <<>>
TypeCode(p) == lower(TypePrefix(p).g[1].v)
TypeSeparator(p) == Unstarred(p)[TypePrefix(p).e]
AfterTypePrefix(p) == Sub(Unstarred(p), TypePrefix(p).e + 1, Len(Unstarred(p)))
SpaceEaters == {"time", "foreign", "transfer_id"}

\* the step that applies the transaction-type rule removes the matched prefix
\* from the payee and adds the translated label of the code to the tags
TxnTypeStep ==
  (pc = "scan" /\ idx' = 9) =>
    LET m == search("txn_type", txn.payee)
    IN  /\ m.ok /\ m.s = 1
        /\ txn'.payee = Sub(txn.payee, m.e + 1, Len(txn.payee))
        /\ txn'.meta = txn.meta
        /\ txn'.tags = txn.tags \cup
             (IF m.g[1].v = <<>> THEN {} ELSE {TxnTypeTranslation[lower(m.g[1].v)]})
        /\ m.g[1].v # <<>> => TxnTypeTranslation[lower(m.g[1].v)] # m.g[1].v

\* C8 as stated: for every payee that starts, after an optional leading star,
\* with a type code followed by '-' or a space, cleanup applies the
\* transaction-type rule and the returned tags hold the translated label.
C8_TypePrefixAlways ==
  (pc = "done" /\ ~rerun /\ HasTypePrefix(entry.payee)) =>
    /\ "txn_type" \in applied
    /\ TxnTypeTranslation[TypeCode(entry.payee)] \in txn.tags

\* C8 amended: for every payee that starts, after an optional leading star,
\* with a type code followed by '-', or followed by a space in a call that
\* applies none of the time, foreign-currency and transfer-id rules, cleanup
\* applies the transaction-type rule, the returned tags hold the translated
\* label of the code, and the step that applies the rule removes the prefix
\* and adds the label, not the raw code.
C8_TypePrefix ==
  /\ [](( /\ pc = "done" /\ ~rerun
          /\ HasTypePrefix(entry.payee)
          /\ (TypeSeparator(entry.payee) = "-" \/ applied \cap SpaceEaters = {}) ) =>
        ( /\ "txn_type" \in applied
          /\ TxnTypeTranslation[TypeCode(entry.payee)] \in txn.tags ))
  /\ [][TxnTypeStep]_vars
C8_Witness ==
  /\ pc = "done" /\ ~rerun
  /\ entry.payee = <<"*","M","O","B","I"," ","A","N","G","R","Y"," ","L","E","M","O","N">>
  /\ txn.payee = <<"A","N","G","R","Y"," ","L","E","M","O","N">>
  /\ txn.tags = {<<"a","p","p">>}

\* C9: one application of the foreign-currency rule to a payee that contains
\* ' <amount> <CCC>@ <rate>' sets metadata['foreign-amount'] to the amount,
\* adds the three upper-case letters CCC as they are to the tags, and removes
\* exactly that span from the payee, all from the groups of one match.
ForeignStep ==
  (pc = "scan" /\ idx' = 5) =>
    \E s \in 1..Len(txn.payee), a \in 1..Len(txn.payee), r \in 1..Len(txn.payee) :
      LET amount == Sub(txn.payee, s + 1, s + a)
          ccc    == Sub(txn.payee, s + a + 2, s + a + 4)
          rate   == Sub(txn.payee, s + a + 7, s + a + 6 + r)
          e      == s + a + 6 + r
      IN  /\ e <= Len(txn.payee)
          /\ Sub(txn.payee, s, e) = <<" ">> \o amount \o <<" ">> \o ccc \o <<"@", " ">> \o rate
          /\ \A i \in 1..a : amount[i] \in DigDot
          /\ \A i \in 1..3 : ccc[i] \in Upper
          /\ \A i \in 1..r : rate[i] \in DigDot
          /\ txn'.payee = Sub(txn.payee, 1, s - 1) \o Sub(txn.payee, e + 1, Len(txn.payee))
          /\ txn'.meta = MetaPut(txn.meta, "foreign-amount", amount)
          /\ txn'.tags = txn.tags \cup {ccc}
C9_ForeignRule == [][ForeignStep]_vars
C9_Witness ==
  /\ pc = "done" /\ ~rerun
  /\ entry.payee = <<"V","D","A","-","P","E","R","N","A","M","B","U","C","O"," ","1","0","0",".","0","0"," ","B","R","L","@"," ","0",".","1","7">>
  /\ "foreign" \in applied
  /\ txn.payee = <<"P","E","R","N","A","M","B","U","C","O">>
  /\ txn.tags = {<<"a","t","m">>, <<"B","R","L">>}
  /\ txn.meta = [k \in {"foreign-amount"} |-> <<"1","0","0",".","0","0">>]

\* the payee once its transaction-type prefix, if it has one, is stripped
Unprefixed(p) == IF HasTypePrefix(p) THEN AfterTypePrefix(p) ELSE p
IsBranchPayee(p) == search("branch", Unprefixed(p)).ok
BranchBrand(p) == search("branch", Unprefixed(p)).g[1].v
BranchRemainder(p) == search("branch", Unprefixed(p)).g[2].v
BrandAsReturned(b) == IF Len(b) <= 3 THEN upper(b) ELSE capitalize(b)

\* C10 as stated: for every payee that, once its transaction-type prefix is
\* stripped, is a listed brand name, spaces and a non-empty remainder,
\* cleanup returns the brand name (upper-cased if at most 3 characters long,
\* otherwise capitalized) as payee and the lower-cased remainder as
\* metadata['location'].
C10_BranchAlways ==
  (pc = "done" /\ ~rerun /\ IsBranchPayee(entry.payee)) =>
    /\ txn.payee = BrandAsReturned(BranchBrand(entry.payee))
    /\ "location" \in DOMAIN txn.meta
    /\ txn.meta["location"] = lower(BranchRemainder(entry.payee))

\* C10 amended: the same, for the calls in which no rule other than the
\* transaction-type rule and the branch rule is applied.
C10_Branch ==
  (pc = "done" /\ ~rerun /\ IsBranchPayee(entry.payee) /\ applied \subseteq {"txn_type", "branch"}) =>
    /\ txn.payee = BrandAsReturned(BranchBrand(entry.payee))
    /\ "location" \in DOMAIN txn.meta
    /\ txn.meta["location"] = lower(BranchRemainder(entry.payee))
    /\ "branch" \in applied
C10_Witness ==
  /\ pc = "done" /\ ~rerun
  /\ entry.payee = <<"V","D","C","-","D","U","N","N","E","S"," ","D","O","G","H","N">>
  /\ applied = {"txn_type", "branch"}
  /\ txn.payee = <<"D","u","n","n","e","s">>
  /\ txn.tags = {<<"c","o","n","t","a","c","t","l","e","s","s">>}
  /\ "location" \in DOMAIN txn.meta
  /\ txn.meta["location"] = <<"d","o","g","h","n">>
C10_WitnessShort ==
  /\ pc = "done" /\ ~rerun
  /\ IsBranchPayee(entry.payee)
  /\ BranchBrand(entry.payee) = <<"b","o","i">>
  /\ txn.payee = <<"B","O","I">>

\* C11: a call whose passes never reach a pass without a match makes at most
\* a maximum number of passes and then ends in an error: no call is still
\* scanning after MaxPasses passes that each applied a rule (every call that
\* returns needs fewer).
C11_PassesBounded == pc = "scan" => passes <= MaxPasses

\* one step of a pass: the rule applied is the first one, from the current
\* position of the pass on, whose pattern matches the payee as it is now; the
\* position moves past it; when no such rule is left the pass ends, the
\* payee is stripped and the position goes back to the first rule
PassStep ==
  pc = "scan" =>
    LET J == {k \in idx..Len(extractors) : search(extractors[k].r, txn.payee).ok}
    IN  IF J # {}
        THEN /\ idx' = Min(J) + 1
             /\ idx' > idx
             /\ pc' = "scan"
             /\ passes' = passes
             /\ applied' = applied \cup {extractors[Min(J)].r}
             /\ txn' = ApplyActions(extractors[Min(J)].actions, 1,
                                    search(extractors[Min(J)].r, txn.payee), txn)
        ELSE /\ idx' = 1
             /\ txn'.payee = strip(txn.payee)
             /\ pc' = "scan" <=> matched
             /\ applied' = applied

\* the two stars of '*X*': the first pass removes the leading one only, the
\* second pass the trailing one
StarsByPass ==
  (entry.payee = <<"*","X","*">> /\ ~rerun) =>
    /\ (pc = "scan" /\ passes = 0 /\ idx > 1) => txn.payee = <<"X","*">>
    /\ (pc = "scan" /\ passes = 1 /\ idx = 1) => txn.payee = <<"X","*">>
    /\ (pc = "scan" /\ passes = 1 /\ idx > 1) => txn.payee = <<"X">>
    /\ pc = "done" => txn.payee = <<"X">> /\ passes = 3

\* C19: within one pass the rules are tried in table order, each rule is
\* applied at most once, to the leftmost match of its pattern in the payee
\* as the earlier rules of the pass left it; a second occurrence of a
\* pattern is handled in a following pass of the same call.
C19_PassStructure == []StarsByPass /\ [][PassStep]_vars
C19_Witness ==
  /\ pc = "scan" /\ ~rerun
  /\ entry.payee = <<"*","X","*">>
  /\ passes = 1 /\ idx = 1
  /\ "edge_stars" \in applied
  /\ search("edge_stars", txn.payee).ok

\* the step that applies the payment-processor rule: the captured name is
\* looked up as it is in {sq: square, sp: stripe}, the result is lower-cased
\* and written to metadata['payment-processor']
ProcessorStep ==
  (pc = "scan" /\ idx' = 10) =>
    LET m == search("processor", txn.payee)
        v == m.g[1].v
        translated == IF v = <<"s","q">> THEN <<"s","q","u","a","r","e">>
                      ELSE IF v = <<"s","p">> THEN <<"s","t","r","i","p","e">>
                      ELSE v
    IN  /\ m.ok
        /\ txn'.meta = MetaPut(txn.meta, "payment-processor", lower(translated))
        /\ txn'.tags = txn.tags
        /\ txn'.payee = Sub(txn.payee, m.e + 1, Len(txn.payee))

\* C20: a Meta action with a translation table and a transformer looks the
\* captured value up in the table by exact match, passes it through on a
\* miss, then applies the transformer and writes the result: the
\* payment-processor rule gives 'square' for 'sq' and 'sq' for 'SQ'.
C20_TranslateThenTransform == [][ProcessorStep]_vars
C20_Witness ==
  /\ pc = "done" /\ ~rerun
  /\ entry.payee = <<"S","Q"," ","X">>
  /\ txn.payee = <<"X">>
  /\ txn.meta = [k \in {"payment-processor"} |-> <<"s","q">>]
C20_WitnessTranslated ==
  /\ pc = "done" /\ ~rerun
  /\ entry.payee = <<"s","q","_","X">>
  /\ txn.meta = [k \in {"payment-processor"} |-> <<"s","q","u","a","r","e">>]


(***************************************************************************)
(* Claims about the categorizer.                                           *)
(***************************************************************************)
\* the categorizer has returned an entry
Processed == cat_n > 0

\* the accounts for which one of the words, read letter by letter, is a
\* case-insensitive prefix of the payee
AccountsByPrefix(payee) ==
  {i \in DOMAIN categories :
     \E k \in DOMAIN categories[i].names : StartsAtCI(payee, 1, categories[i].names[k])}

\* C12: an entry that is not a Transaction with exactly one posting is
\* returned with the postings it came with, whatever its payee: entries with
\* two or more postings, with no posting, and entries of another type.
C12_OnlySinglePosting ==
  (Processed /\ ~(cat_entry.type = "Transaction" /\ Len(cat_entry.postings) = 1))
    => cat_out = cat_entry
\* a transaction with two postings whose payee starts with a word of the
\* first account comes back unchanged
C12_Witness ==
  /\ Processed
  /\ cat_entry.type = "Transaction"
  /\ Len(cat_entry.postings) = 2
  /\ cat_entry.payee = <<"T","E","S","C","O"," ","S","T","O","R","E","S"," ","7">>
  /\ 1 \in AccountsByPrefix(cat_entry.payee)
  /\ cat_out.postings = cat_entry.postings
\* the same for a transaction without postings and an entry of another type
C12_WitnessOther ==
  /\ Processed
  /\ \/ cat_entry.type = "Transaction" /\ Len(cat_entry.postings) = 0
     \/ cat_entry.type = "Other" /\ Len(cat_entry.postings) = 1
  /\ 1 \in AccountsByPrefix(cat_entry.payee)
  /\ cat_out = cat_entry

\* C13: a transaction with exactly one posting gets at most one more
\* posting: one without amount for the first account, in mapping order, one
\* of whose words is a case-insensitive prefix of the payee, and nothing when
\* no account has such a word.
C13_FirstPrefixWins ==
  (Processed /\ cat_entry.type = "Transaction" /\ Len(cat_entry.postings) = 1)
    => LET hits == AccountsByPrefix(cat_entry.payee)
       IN  IF hits = {} THEN cat_out = cat_entry
           ELSE cat_out = [cat_entry EXCEPT !.postings =
                             Append(@, [account |-> categories[Min(hits)].account,
                                        units |-> <<>>])]

(***************************************************************************)
(* Claims about the importer.                                              *)
(***************************************************************************)
\* the call op has returned
Returned(op) == imp_pc = "returned" /\ imp_call.op = op

\* the file is not CSV, names several accounts, or names an account that is
\* not in account_map
Unidentified(f) ==
  \/ f.mimetype # "text/csv"
  \/ \E i, j \in DOMAIN f.rows : f.rows[i].account # f.rows[j].account
  \/ f.rows[1].account \notin DOMAIN account_map

\* the ledger account of an identified file
FileAccountOf(f) == account_map[f.rows[1].account]

\* the transactions of a list of entries
Transactions(es) == SelectSeq(es, LAMBDA e : e.type = "Transaction")
BalanceDirectives(es) == SelectSeq(es, LAMBDA e : e.type = "Balance")

\* the transactions imported from an identified file, in date order
Imported(f) == sort_by_date(_parse(FileAccountOf(f), f).entries)

\* the dates of the existing transactions not flagged ! that have a posting on
\* the account
ReferenceDates(existing, account) ==
  {existing[i].date : i \in {k \in DOMAIN existing :
      /\ existing[k].type = "Transaction"
      /\ existing[k].flag # "!"
      /\ \E p \in DOMAIN existing[k].postings : existing[k].postings[p].account = account}}

\* the extract call that returned had a reference point for the culling
HasReference ==
  /\ cutoff_point # None
  /\ imp_call.existing_entries # None
  /\ ReferenceDates(imp_call.existing_entries[1], FileAccountOf(imp_call.file)) # {}

\* C14: on a file that identify rejects (not CSV, several accounts, account
\* not in account_map) identify returns False, file_date returns None,
\* file_account returns '__UNKNOWN__' and extract returns the empty list,
\* whatever account the instance holds from earlier calls.
C14_UnidentifiedFile ==
  (imp_pc = "returned" /\ Unidentified(imp_call.file))
    => /\ imp_call.op = "identify" => imp_ret = FALSE
       /\ imp_call.op = "file_date" => imp_ret = None
       /\ imp_call.op = "file_account" => imp_ret = default_account
       /\ imp_call.op = "extract" => imp_ret = <<>>
\* file_account on a file of several accounts, made while the instance holds
\* the account of an earlier file
C14_Witness ==
  /\ Returned("file_account")
  /\ Unidentified(imp_call.file)
  /\ imp_call.held = "Assets:AIB:Secret"
  /\ importer_account = "Assets:AIB:Secret"
  /\ imp_ret = default_account
\* extract on a file that is not CSV, with existing entries
C14_WitnessExtract ==
  /\ Returned("extract")
  /\ imp_call.file = NotCsv
  /\ imp_call.held = "Liabilities:AIB:Card"
  /\ imp_call.existing_entries # None
  /\ imp_ret = <<>>

C15_WitnessOneDay ==
  /\ Returned("extract")
  /\ cutoff_point = <<1>>
  /\ imp_call.existing_entries
       = << <<ExistingTx(3, "*", "Liabilities:AIB:Card"), ExistingTx(3, "*", "Assets:AIB:Secret")>> >>
  /\ Len(imp_call.file.rows) = 2
  /\ imp_call.file.rows[1].account = "222"
  /\ imp_call.file.rows[1].date = 1
  /\ imp_call.file.rows[2].date = 2
  /\ Len(Transactions(imp_ret)) = 1
  /\ imp_ret[1].date = 2

\* the rows of the file with a Balance field
RowsWithBalance(f) == {i \in DOMAIN f.rows : f.rows[i].balance # ""}

\* the list ends with the one Balance directive of the file: on the account,
\* with the balance of the last row that has one, dated the day after it
EndsWithBalance(es, f) ==
  LET i == Max(RowsWithBalance(f))
  IN  /\ es # <<>>
      /\ Len(BalanceDirectives(es)) = 1
      /\ es[Len(es)].type = "Balance"
      /\ es[Len(es)].account = FileAccountOf(f)
      /\ es[Len(es)].amount = <<f.rows[i].balance, currency>>
      /\ es[Len(es)].date = f.rows[i].date + 1

\* no entry of the list is dated after its last one
LastIsLatest(es) == \A k \in DOMAIN es : es[k].date <= es[Len(es)].date

\* C16 as stated: when a row of an identified file has a Balance field, the
\* list extract returns ends with exactly one Balance directive for the
\* account, with the balance of the last such row, dated one day after it,
\* with the latest date of the list, whatever the culling; without such a row
\* the list holds no Balance directive.
C16_BalanceLastAndLatest ==
  (Returned("extract") /\ ~Unidentified(imp_call.file))
    => IF RowsWithBalance(imp_call.file) # {}
       THEN EndsWithBalance(imp_ret, imp_call.file) /\ LastIsLatest(imp_ret)
       ELSE BalanceDirectives(imp_ret) = <<>>

\* C16, amended: the Balance directive is the last element of the list; its
\* date is the latest of the list when no row of the file is dated later than
\* the day after the last row with a Balance field.
C16_BalanceLast ==
  (Returned("extract") /\ ~Unidentified(imp_call.file))
    => LET f == imp_call.file
       IN  IF RowsWithBalance(f) # {}
           THEN /\ EndsWithBalance(imp_ret, f)
                /\ (\A k \in DOMAIN f.rows : f.rows[k].date <= f.rows[Max(RowsWithBalance(f))].date + 1)
                      => LastIsLatest(imp_ret)
           ELSE BalanceDirectives(imp_ret) = <<>>
\* the culling dropped every transaction and the Balance directive of the
\* second row is all that is returned
C16_Witness ==
  /\ Returned("extract")
  /\ ~Unidentified(imp_call.file)
  /\ HasReference
  /\ Len(imp_call.file.rows) = 2
  /\ RowsWithBalance(imp_call.file) = {1, 2}
  /\ Len(imp_ret) = 1
  /\ imp_ret[1].type = "Balance"
  /\ imp_ret[1].amount = <<Balances[2], currency>>
\* a row without balance dated two days after the last row with a balance:
\* the Balance directive is last in the list but dated before a transaction
C16_WitnessEarlier ==
  /\ Returned("extract")
  /\ Len(imp_call.file.rows) = 2
  /\ imp_call.file.rows[1].date = 1
  /\ imp_call.file.rows[2].date = 3
  /\ RowsWithBalance(imp_call.file) = {1}
  /\ Len(imp_ret) = 3
  /\ imp_ret[2].date = 3
  /\ imp_ret[3].type = "Balance"
  /\ imp_ret[3].date = 2

\* C17: whatever account the instance holds from calls on other files,
\* file_account(f) returns the account mapped from f's own first column, and
\* every posting and the Balance directive of extract(f) are on it.
C17_OwnAccount ==
  (imp_pc = "returned" /\ ~Unidentified(imp_call.file))
    => LET a == FileAccountOf(imp_call.file)
       IN  /\ importer_account = a
           /\ imp_call.op = "file_account" => imp_ret = a
           /\ imp_call.op = "extract" =>
                \A i \in DOMAIN imp_ret :
                  IF imp_ret[i].type = "Transaction"
                  THEN \A k \in DOMAIN imp_ret[i].postings : imp_ret[i].postings[k].account = a
                  ELSE imp_ret[i].account = a
\* extract on a file of the card account, made while the instance holds the
\* account of another file, returns transactions and a Balance directive
C17_Witness ==
  /\ Returned("extract")
  /\ imp_call.held = "Assets:AIB:Secret"
  /\ ~Unidentified(imp_call.file)
  /\ imp_call.file.rows[1].account = "222"
  /\ Len(imp_ret) = 3
  /\ imp_ret[1].postings[1].account = "Liabilities:AIB:Card"
  /\ imp_ret[3].type = "Balance"
  /\ imp_ret[3].account = "Liabilities:AIB:Card"
\* file_account on a file of the current account while the instance holds
\* the card account
C17_WitnessFileAccount ==
  /\ Returned("file_account")
  /\ imp_call.held = "Liabilities:AIB:Card"
  /\ imp_ret = "Assets:AIB:Secret"

\* the dates of a list of entries are in ascending order
InDateOrder(es) == \A i, j \in DOMAIN es : i < j => es[i].date <= es[j].date

C18_WitnessNoCutoff ==
  /\ Returned("extract")
  /\ cutoff_point = None
  /\ imp_call.existing_entries # None
  /\ ~Unidentified(imp_call.file)
  /\ ReferenceDates(imp_call.existing_entries[1], FileAccountOf(imp_call.file)) = {3}
  /\ \E i \in DOMAIN imp_call.file.rows : imp_call.file.rows[i].date = 1
  /\ Len(Transactions(imp_ret)) = Len(imp_call.file.rows)

(***************************************************************************)
(* Actions of a rule on one match: soft misses, metadata writes, the span. *)
(***************************************************************************)
\* the step that applies the transaction-type rule through its empty
\* alternative (the payee starts with '-' or with a space): the tag action
\* has an empty value and adds nothing, the Consume that follows it removes
\* the one matched character
EmptyTypeStep ==
  (pc = "scan" /\ idx' = 9 /\ search("txn_type", txn.payee).g[1].v = <<>>) =>
    /\ txn.payee[1] \in {"-", " "}
    /\ txn'.tags = txn.tags
    /\ txn'.meta = txn.meta
    /\ txn'.payee = Sub(txn.payee, 2, Len(txn.payee))

\* the step that applies the time rule, whether or not its optional group
\* 'time' took part in the match: the time of group 2 is written and the
\* span is consumed
TimeStep ==
  (pc = "scan" /\ idx' = 4) =>
    LET m == search("time", txn.payee)
    IN  /\ m.ok /\ m.e = Len(txn.payee)
        /\ txn'.tags = txn.tags
        /\ DOMAIN txn'.meta = DOMAIN txn.meta \cup {"time"}
        /\ txn'.meta["time"] = Sub(txn.payee, Len(txn.payee) - 4, Len(txn.payee))
        /\ \A k \in DOMAIN txn.meta \ {"time"} : txn'.meta[k] = txn.meta[k]
        /\ txn'.payee = Sub(txn.payee, 1, m.s - 1)

\* a call on a payee that starts with '-' returns without a tag
NoTagForDash ==
  (pc = "done" /\ ~rerun /\ entry.payee # <<>> /\ entry.payee[1] = "-") =>
    /\ "txn_type" \in applied
    /\ \A t \in txn.tags : t # <<>> /\ t # <<"-">>

\* C21: a Tag or Meta action whose value is empty, or whose group did not
\* take part in the match, adds no tag and writes no metadata, nothing is
\* raised, and the remaining actions of the rule still apply: the
\* transaction-type rule on a payee that starts with '-' or a space consumes
\* the character and leaves tags and metadata as they are, the time rule
\* without the word 'time' writes the time and consumes its span.
C21_SoftMiss == []NoTagForDash /\ [][EmptyTypeStep /\ TimeStep]_vars
C21_Witness ==
  /\ pc = "done" /\ ~rerun
  /\ entry.payee = <<"-","X">>
  /\ "txn_type" \in applied
  /\ txn = Tx(<<"X">>, EMPTY_TAGS, EMPTY_META)
C21_WitnessTime ==
  /\ pc = "done" /\ ~rerun
  /\ entry.payee = <<"X"," ","1","2",":","3","4">>
  /\ ~search("time", entry.payee).g[1].on
  /\ txn = Tx(<<"X">>, EMPTY_TAGS, [k \in {"time"} |-> <<"1","2",":","3","4">>])

\* the step that applies the transfer-id, Ryanair or FreeNow rule writes the
\* id of its match under 'id', over the value an earlier rule or pass wrote
\* there, and leaves the other keys alone
IdStep ==
  (pc = "scan" /\ idx' \in {6, 7, 8}) =>
    LET m == search(extractors[idx' - 1].r, txn.payee)
    IN  /\ m.ok /\ m.g[1].v # <<>>
        /\ DOMAIN txn'.meta = DOMAIN txn.meta \cup {"id"}
        /\ txn'.meta["id"] = m.g[1].v
        /\ \A k \in DOMAIN txn.meta \ {"id"} : txn'.meta[k] = txn.meta[k]

\* the id a call returns for the payees whose id is written twice
LastId ==
  (pc = "done" /\ ~rerun) =>
    /\ entry.payee = <<"R","Y","A","N","A","I","R"," ","X"," ","I","E","1","2">> => txn.meta["id"] = <<"X">>
    /\ entry.payee = <<"F","R","E","E","N","O","W","*","A","1"," ","I","E","1","2">> => txn.meta["id"] = <<"A","1">>
    /\ entry.payee = <<"I","E","1","2"," ","I","E","3","4">> => txn.meta["id"] = <<"I","E","3","4">>

\* C22: when several Meta actions write the same key during one call, the
\* key holds the value written last, and the metadata holds one entry per
\* key: the transfer-id rule writes 'id' first, the Ryanair or FreeNow rule
\* of the same pass, or the transfer-id rule of a later pass, writes over it.
C22_LastWriteWins == []LastId /\ [][IdStep]_vars
C22_Witness ==
  /\ pc = "done" /\ ~rerun
  /\ entry.payee = <<"R","Y","A","N","A","I","R"," ","X"," ","I","E","1","2">>
  /\ {"transfer_id", "ryanair"} \subseteq applied
  /\ txn.payee = <<"R","y","a","n","a","i","r">>
  /\ txn.meta = [k \in {"id"} |-> <<"X">>]
C22_WitnessLaterPass ==
  /\ pc = "done" /\ ~rerun
  /\ entry.payee = <<"I","E","1","2"," ","I","E","3","4">>
  /\ passes > 2
  /\ txn.payee = <<>>
  /\ txn.meta = [k \in {"id"} |-> <<"I","E","3","4">>]

\* the rules whose last action is Consume, and the replacement of the others
ConsumeRules == {"edge_stars", "time", "foreign", "transfer_id", "txn_type", "processor", "date"}
Replacement(r, m) ==
  CASE r = "space_stars" -> <<" ">>
    [] r = "ryanair"     -> <<"R","y","a","n","a","i","r">>
    [] r = "freenow"     -> <<"F","r","e","e","N","o","w">>
    [] r = "google1"     -> m.g[1].v
    [] r = "google2"     -> m.g0
    [] r = "amazon1"     -> <<"A","m","a","z","o","n">> \o lower(m.g[2].v) \o m.g[4].v
    [] r = "amazon2"     -> <<"A","m","a","z","o","n"," ","P","r","i","m","e">>
    [] r = "amazon3"     -> <<"A","m","a","z","o","n">>
    [] r = "amazon4"     -> m.g[1].v
    [] r = "branch"      -> IF Len(m.g[1].v) <= 3 THEN upper(m.g[1].v)
                            ELSE capitalize(m.g[1].v)
    [] OTHER             -> <<>>

\* the step that applies a rule: the payee is the text before the match, the
\* replacement (nothing for Consume), and the text after the match
SpanStep ==
  (pc = "scan" /\ idx' > idx) =>
    LET r == extractors[idx' - 1].r
        m == search(r, txn.payee)
        before == Sub(txn.payee, 1, m.s - 1)
        after  == Sub(txn.payee, m.e + 1, Len(txn.payee))
    IN  /\ m.ok
        /\ before \o m.g0 \o after = txn.payee
        /\ r \in ConsumeRules => txn'.payee = before \o after
        /\ r \notin ConsumeRules => txn'.payee = before \o Replacement(r, m) \o after

\* C23: Replace and Consume touch only the matched span: after the action
\* the payee is the text before the match, the replacement, and the text
\* after the match, and Consume is Replace with the empty string
\* ('LEEROY JENKINS IE10293482' gives 'LEEROY JENKINS' with id 'IE10293482').
C23_OnlyTheSpan == [][SpanStep]_vars
C23_Witness ==
  /\ pc = "done" /\ ~rerun
  /\ entry.payee = <<"L","E","E","R","O","Y"," ","J","E","N","K","I","N","S"," ","I","E","1","0","2","9","3","4","8","2">>
  /\ applied = {"transfer_id"}
  /\ txn.payee = <<"L","E","E","R","O","Y"," ","J","E","N","K","I","N","S">>
  /\ txn.meta = [k \in {"id"} |-> <<"I","E","1","0","2","9","3","4","8","2">>]
C23_WitnessReplace ==
  /\ pc = "scan" /\ ~rerun
  /\ entry.payee = <<"V","D","P","-","P","A","Y","P","A","L"," ","*","E","V","I","L">>
  /\ idx = 3
  /\ txn.payee = <<"V","D","P","-","P","A","Y","P","A","L"," ","E","V","I","L">>

\* no whitespace at either end
Trimmed(s) == s = <<>> \/ (s[1] \notin Space /\ s[Len(s)] \notin Space)

\* C24: at the start of a call, at the end of every pass and whenever the
\* cleanup has returned, the payee has no leading and no trailing whitespace,
\* also when a Consume or a Replace of the pass left a space at either end.
C24_Trimmed ==
  (pc = "done" \/ (pc = "scan" /\ idx = 1)) =>
    /\ Trimmed(txn.payee)
    /\ Trimmed(passStart.payee)
C24_Witness ==
  /\ pc = "scan" /\ ~rerun
  /\ entry.payee = <<"X"," ","*">>
  /\ passes = 1 /\ idx = 1
  /\ applied = {"edge_stars"}
  /\ txn.payee = <<"X">>
C24_WitnessTrailing ==
  /\ pc = "scan" /\ ~rerun
  /\ entry.payee = <<"X"," ","*">>
  /\ passes = 0 /\ idx = 2
  /\ txn.payee = <<"X"," ">>
C24_WitnessLeading ==
  /\ pc = "scan" /\ ~rerun
  /\ entry.payee = <<"*"," ","*">>
  /\ passes = 0 /\ idx = 3
  /\ applied = {"edge_stars", "space_stars"}
  /\ txn.payee = <<" ">>

\* a step of a call never lengthens the payee; a step that changes it and
\* keeps its length applies the first or second Amazon rule, which leaves
\* its own result as it is when it is applied to it again
NeverLongerStep ==
  pc = "scan" =>
    /\ Len(txn'.payee) <= Len(txn.payee)
    /\ (Len(txn'.payee) = Len(txn.payee) /\ txn'.payee # txn.payee) =>
         /\ idx' \in {14, 15}
         /\ LET r == extractors[idx' - 1].r
                m == search(r, txn'.payee)
            IN  /\ m.ok
                /\ Sub(txn'.payee, 1, m.s - 1) \o Replacement(r, m)
                     \o Sub(txn'.payee, m.e + 1, Len(txn'.payee)) = txn'.payee

\* the payee of a call is never longer than the payee it was called on
NeverLongerThanEntry == Len(txn.payee) <= Len(entry.payee)

\* C25: no rule of the AIB table lengthens the payee: over a call the length
\* of the payee never increases, and a change that keeps the length is a
\* case normalisation that is not repeated, so the payee changes finitely
\* many times.
C25_NeverLonger == []NeverLongerThanEntry /\ [][NeverLongerStep]_vars
C25_Witness ==
  /\ pc = "scan" /\ ~rerun
  /\ entry.payee = <<"a","m","a","z","o","n",".","c","o",".","u","k">>
  /\ idx = 14
  /\ applied = {"amazon1"}
  /\ txn.payee = <<"A","m","a","z","o","n",".","c","o",".","u","k">>
C25_WitnessShorter ==
  /\ pc = "done" /\ ~rerun
  /\ entry.payee = <<"V","D","C","-","D","U","N","N","E","S"," ","D","O","G","H","N">>
  /\ txn.payee = <<"D","u","n","n","e","s">>

\* the step that applies the payment-processor rule to a payee that starts
\* with 'sq' or 'sp' in any letter case
CanonicalProcessorStep ==
  (pc = "scan" /\ idx' = 10) =>
    LET v == lower(search("processor", txn.payee).g[1].v)
    IN  /\ v = <<"s","q">> => txn'.meta["payment-processor"] = <<"s","q","u","a","r","e">>
        /\ v = <<"s","p">> => txn'.meta["payment-processor"] = <<"s","t","r","i","p","e">>

\* C26 as stated: for every payee that begins with 'sq' or 'sp' in any letter
\* case followed by a space or an underscore, the payment-processor rule sets
\* metadata['payment-processor'] to 'square' or 'stripe', never to the
\* abbreviation.
C26_CaseIndependent == [][CanonicalProcessorStep]_vars
====
